---------------------------- MODULE Spec2Model ----------------------------
(***************************************************************************)
(* Model of the DOCX-to-HTML converter: docx_processor.py (clean_text,     *)
(* analyze_font_sizes, is_heading, process_paragraph,                      *)
(* extract_tables_as_html, process_docx_file, get_document_structure) and  *)
(* the two conversion handlers of server.py.                               *)
(*                                                                         *)
(* A string is a sequence of code points (Latin-1 range).  A run is        *)
(* [bold, size] where size = NoSize stands for run.font.size being None    *)
(* and bold = FALSE stands for run.bold being False or None (the code only *)
(* tests truthiness).  Font sizes are whole points.                        *)
(***************************************************************************)
EXTENDS Integers, Sequences, FiniteSets, TLC

VARIABLES
    pc,                 \* position in the running entry point
    request,            \* [entry, upload]: which entry point, what was uploaded
    document,           \* [paragraphs, tables]: the parsed document
    font_sizes,         \* analyze_font_sizes result: [base, min, max, all]
    base_font_size,     \* process_docx_file local
    html_elements,      \* process_docx_file local: list of strings
    paragraph_counter,  \* process_docx_file local
    h1_used,            \* process_docx_file local
    idx,                \* number of paragraphs the loop has consumed
    paragraph,          \* loop variable / is_heading argument
    text,               \* paragraph.text.strip() / clean_text argument
    cleaned_text,       \* clean_text(text)
    recleaned,          \* clean_text(cleaned_text)
    heading_level,      \* is_heading result
    element,            \* process_paragraph result
    table_idx,          \* extract_tables_as_html: enumerate index of the table
    row_idx,            \* extract_tables_as_html: rows consumed in this table
    cells_html,         \* extract_tables_as_html local
    rows_html,          \* extract_tables_as_html local
    html_tables,        \* extract_tables_as_html local
    paragraphs_count,   \* get_document_structure local
    headings_count,     \* get_document_structure local
    response            \* what the entry point returned

vars == <<pc, request, document, font_sizes, base_font_size, html_elements,
          paragraph_counter, h1_used, idx, paragraph, text, cleaned_text,
          recleaned, heading_level, element, table_idx, row_idx, cells_html,
          rows_html, html_tables, paragraphs_count, headings_count, response>>

(***************************************************************************)
(* Bounds of the model.                                                    *)
(***************************************************************************)
MaxTextLen == 3       \* clean_text inputs: all strings up to this length
MaxRuns == 2          \* runs per paragraph in the is_heading / font inputs
MaxFontParas == 2     \* paragraphs per document in the font-analysis inputs
MaxParas == 3         \* paragraphs per document, full paragraph palette
MaxLongParas == 11    \* paragraphs per document, two-kind palette
MaxTables == 2        \* tables per document
MaxRows == 2          \* rows per table
MaxCells == 2         \* cells per row

None == "None"
NoSize == 0

\* F applied to the value of e, with e evaluated once
Bind(e, F(_)) == CHOOSE r \in {F(x) : x \in {e}} : TRUE

\* Sequences over S of length 0..n
SeqUpTo(S, n) == UNION {[1..k -> S] : k \in 0..n}

SetMax(S) == CHOOSE x \in S : \A y \in S : y <= x
SetMin(S) == CHOOSE x \in S : \A y \in S : x <= y
SeqRange(s) == {s[k] : k \in 1..Len(s)}

RECURSIVE JoinUpTo(_, _)
JoinUpTo(parts, n) == IF n = 0 THEN <<>> ELSE JoinUpTo(parts, n - 1) \o parts[n]

\* ''.join(parts)
Join(parts) == JoinUpTo(parts, Len(parts))

\* s.startswith(prefix)
StartsWith(s, prefix) ==
    Len(s) >= Len(prefix) /\ SubSeq(s, 1, Len(prefix)) = prefix

\* s.endswith(suffix)
EndsWith(s, suffix) ==
    Len(s) >= Len(suffix) /\ SubSeq(s, Len(s) - Len(suffix) + 1, Len(s)) = suffix

\* the number of positions of s at which sub occurs
Occurrences(s, sub) ==
    Cardinality({i \in 1..Len(s) : i + Len(sub) - 1 <= Len(s)
                                   /\ SubSeq(s, i, i + Len(sub) - 1) = sub})

\* n copies of the character c
Chars(c, n) == [i \in 1..n |-> c]

(***************************************************************************)
(* Characters                                                              *)
(***************************************************************************)
AMP == 38
LT == 60
GT == 62
QUOT == 34
APOS == 39
SP == 32
TAB == 9
VT == 11
DEL == 127
SLASH == 47
LetterA == 97

HtmlSpecials == {AMP, LT, GT, QUOT, APOS}

\* the replacement strings of clean_text
EntAmp == <<38, 97, 109, 112, 59>>          \* &amp;
EntLt == <<38, 108, 116, 59>>               \* &lt;
EntGt == <<38, 103, 116, 59>>               \* &gt;
EntQuot == <<38, 113, 117, 111, 116, 59>>   \* &quot;
EntApos == <<38, 35, 51, 57, 59>>           \* &#39;

\* the character class [\x00-\x08\x0B\x0C\x0E-\x1F\x7F-\x9F]
IsControl(c) == c \in (0..8) \cup {11, 12} \cup (14..31) \cup (127..159)

\* \s for a str pattern, which is also what str.strip() and str.split() use
IsSpace(c) == c \in {9, 10, 11, 12, 13, 28, 29, 30, 31, 32, 133, 160}

\* str.strip()
Strip(s) ==
    Bind({i \in 1..Len(s) : ~IsSpace(s[i])}, LAMBDA keep :
        IF keep = {} THEN <<>> ELSE SubSeq(s, SetMin(keep), SetMax(keep)))

\* re.sub(r'[\x00-\x08\x0B\x0C\x0E-\x1F\x7F-\x9F]', '', s)
RemoveControl(s) == SelectSeq(s, LAMBDA c : ~IsControl(c))

\* re.sub(r'\s+', ' ', s): the first character of a whitespace run becomes
\* a space, the rest of the run is dropped
CollapseSpaces(s) ==
    Bind([i \in 1..Len(s) |->
             IF ~IsSpace(s[i]) THEN s[i]
             ELSE IF i > 1 /\ IsSpace(s[i - 1]) THEN -1 ELSE SP],
         LAMBDA marked : SelectSeq(marked, LAMBDA c : c # -1))

\* s.replace(c, rep) for a one-character c
Replace(s, c, rep) ==
    Join([i \in 1..Len(s) |-> IF s[i] = c THEN rep ELSE <<s[i]>>])

\* lines 253-259 with the strip made first
NormalizeStripFirst(t) ==
    Bind(Strip(t), LAMBDA c1 :
    Bind(RemoveControl(c1), LAMBDA c2 : CollapseSpaces(c2)))

\* lines 253-259: drop control characters, collapse whitespace, strip
Normalize(t) ==
    Bind(RemoveControl(t), LAMBDA c1 :
    Bind(CollapseSpaces(c1), LAMBDA c2 : Strip(c2)))

\* lines 262-266 without the last replace
EscapeHtmlNoApos(c) ==
    Bind(Replace(c, AMP, EntAmp), LAMBDA c4 :
    Bind(Replace(c4, LT, EntLt), LAMBDA c5 :
    Bind(Replace(c5, GT, EntGt), LAMBDA c6 : Replace(c6, QUOT, EntQuot))))

\* lines 262-266: the five replaces, in the code's order
EscapeHtml(c) ==
    Bind(Replace(c, AMP, EntAmp), LAMBDA c4 :
    Bind(Replace(c4, LT, EntLt), LAMBDA c5 :
    Bind(Replace(c5, GT, EntGt), LAMBDA c6 :
    Bind(Replace(c6, QUOT, EntQuot), LAMBDA c7 : Replace(c7, APOS, EntApos)))))

clean_text(t) == Bind(Normalize(t), LAMBDA c3 : EscapeHtml(c3))

(***************************************************************************)
(* analyze_font_sizes                                                      *)
(***************************************************************************)
\* the sizes of the runs that have one, in run order
RunSizes(runs) ==
    Bind(SelectSeq(runs, LAMBDA run : run.size # NoSize), LAMBDA sized :
        [k \in 1..Len(sized) |-> sized[k].size])

RECURSIVE CollectUpTo(_, _)
CollectUpTo(paragraphs, n) ==
    IF n = 0 THEN <<>>
    ELSE CollectUpTo(paragraphs, n - 1) \o RunSizes(paragraphs[n].runs)

\* lines 77-84, the font_sizes list: paragraphs in order, runs in order
CollectSizes(paragraphs) == CollectUpTo(paragraphs, Len(paragraphs))

\* size_counts[size] = size_counts.get(size, 0) + 1 on a dict kept as the
\* sequence of its <<key, value>> items in insertion order
CountOne(size_counts, size) ==
    IF \E k \in 1..Len(size_counts) : size_counts[k][1] = size
    THEN [k \in 1..Len(size_counts) |->
            IF size_counts[k][1] = size
            THEN <<size, size_counts[k][2] + 1>> ELSE size_counts[k]]
    ELSE Append(size_counts, <<size, 1>>)

RECURSIVE CountUpTo(_, _)
CountUpTo(sizes, n) ==
    IF n = 0 THEN <<>>
    ELSE Bind(CountUpTo(sizes, n - 1), LAMBDA counted : CountOne(counted, sizes[n]))

\* the loop of lines 89-90
CountSizes(sizes) == CountUpTo(sizes, Len(sizes))

RECURSIVE MaxLastUpTo(_, _)
MaxLastUpTo(items, n) ==
    IF n = 1 THEN items[1]
    ELSE Bind(MaxLastUpTo(items, n - 1), LAMBDA best :
             IF items[n][2] >= best[2] THEN items[n] ELSE best)

\* max() that lets a later item of equal count replace the best so far
MaxItemLast(items) == MaxLastUpTo(items, Len(items))

RECURSIVE MaxUpTo(_, _)
MaxUpTo(items, n) ==
    IF n = 1 THEN items[1]
    ELSE Bind(MaxUpTo(items, n - 1), LAMBDA best :
             IF items[n][2] > best[2] THEN items[n] ELSE best)

\* max(items, key=lambda x: x[1]): an item replaces the best so far only
\* when its key is strictly greater
MaxItem(items) == MaxUpTo(items, Len(items))

DefaultFontSize == 12

\* lines 86-100
FontStats(sizes) ==
    IF sizes # <<>>
    THEN [base |-> Bind(CountSizes(sizes), LAMBDA size_counts :
                       Bind(MaxItem(size_counts), LAMBDA best : best[1])),
          min |-> SetMin(SeqRange(sizes)),
          max |-> SetMax(SeqRange(sizes)),
          all |-> sizes]
    ELSE [base |-> DefaultFontSize, min |-> DefaultFontSize,
          max |-> DefaultFontSize, all |-> <<>>]

analyze_font_sizes(doc) ==
    Bind(CollectSizes(doc.paragraphs), LAMBDA sizes : FontStats(sizes))

(***************************************************************************)
(* is_heading                                                              *)
(***************************************************************************)
MaxHeadingChars == 200
MaxHeadingWords == 25
ShortWords == 10
LargeFontDelta == 1
H1Delta == 4
H2Delta == 2
BoldScore == 3
LargeFontScore == 2
CenteredScore == 5
ShortScore == 1
MinSizeScore == 2
MinH3Score == 3

\* the k-th smallest element of a set of numbers
Nth(S, k) == CHOOSE i \in S : Cardinality({j \in S : j <= i}) = k

\* the words that start at `starts` and end at `ends`
Words(s, starts, ends) ==
    [k \in 1..Cardinality(starts) |-> SubSeq(s, Nth(starts, k), Nth(ends, k))]

\* text.split(): the maximal runs of non-whitespace characters, in order
Split(s) ==
    Bind({i \in 1..Len(s) : ~IsSpace(s[i]) /\ (i = 1 \/ IsSpace(s[i - 1]))},
         LAMBDA starts :
    Bind({i \in 1..Len(s) : ~IsSpace(s[i]) /\ (i = Len(s) \/ IsSpace(s[i + 1]))},
         LAMBDA ends : Words(s, starts, ends)))

\* lines 135-144 with the large-font test of line 143 made against the H1 threshold
ScanRunLargeAboveH1(acc, run, base) ==
    [is_bold |-> acc.is_bold \/ run.bold,
     is_large_font |-> acc.is_large_font
                       \/ (run.size # NoSize /\ run.size > base + H1Delta),
     max_font_size |-> IF run.size # NoSize /\ run.size > acc.max_font_size
                       THEN run.size ELSE acc.max_font_size]

\* lines 135-144: one run; acc = [is_bold, is_large_font, max_font_size]
ScanRun(acc, run, base) ==
    [is_bold |-> acc.is_bold \/ run.bold,
     is_large_font |-> acc.is_large_font
                       \/ (run.size # NoSize /\ run.size > base + LargeFontDelta),
     max_font_size |-> IF run.size # NoSize /\ run.size > acc.max_font_size
                       THEN run.size ELSE acc.max_font_size]

RECURSIVE ScanUpTo(_, _, _)
ScanUpTo(runs, n, base) ==
    IF n = 0
    THEN [is_bold |-> FALSE, is_large_font |-> FALSE, max_font_size |-> base]
    ELSE Bind(ScanUpTo(runs, n - 1, base), LAMBDA acc : ScanRun(acc, runs[n], base))

\* lines 124-144: the loop over paragraph.runs
ScanRuns(runs, base) == ScanUpTo(runs, Len(runs), base)

\* lines 147-155 with the weight of bold taken for the weight of brevity
ScoreLightBold(acc, is_centered, word_count) ==
      (IF acc.is_bold THEN ShortScore ELSE 0)
    + (IF acc.is_large_font THEN LargeFontScore ELSE 0)
    + (IF is_centered THEN CenteredScore ELSE 0)
    + (IF word_count <= ShortWords THEN ShortScore ELSE 0)

\* lines 147-155
Score(acc, is_centered, word_count) ==
      (IF acc.is_bold THEN BoldScore ELSE 0)
    + (IF acc.is_large_font THEN LargeFontScore ELSE 0)
    + (IF is_centered THEN CenteredScore ELSE 0)
    + (IF word_count <= ShortWords THEN ShortScore ELSE 0)

\* lines 158-165
Ladder(acc, score, base) ==
    IF acc.max_font_size > base + H1Delta
    THEN (IF score >= MinSizeScore THEN 1 ELSE 0)
    ELSE IF acc.max_font_size > base + H2Delta
    THEN (IF score >= MinSizeScore THEN 2 ELSE 0)
    ELSE IF score >= MinH3Score THEN 3
    ELSE 0

\* lines 120-165, after the length test
Classify(p, word_count, base) ==
    IF word_count > MaxHeadingWords THEN 0
    ELSE Bind(ScanRuns(p.runs, base), LAMBDA acc :
             Ladder(acc, Score(acc, p.alignment = "CENTER", word_count), base))

is_heading(p, t, base) ==
    IF Len(t) > MaxHeadingChars THEN 0
    ELSE Bind(Len(Split(t)), LAMBDA word_count : Classify(p, word_count, base))

(***************************************************************************)
(* process_paragraph                                                       *)
(***************************************************************************)
Digit0 == 48

RECURSIVE Digits(_)
Digits(n) == IF n < 10 THEN <<Digit0 + n>>
             ELSE Digits(n \div 10) \o <<Digit0 + (n % 10)>>

PadWidth == 2

\* f'{n:02d}'
Format02d(n) ==
    Bind(Digits(n), LAMBDA d :
        IF Len(d) < PadWidth THEN Chars(Digit0, PadWidth - Len(d)) \o d ELSE d)

OpenTag(name) == <<LT>> \o name \o <<GT>>
CloseTag(name) == <<LT, SLASH>> \o name \o <<GT>>
Tagged(name, inner) == OpenTag(name) \o inner \o CloseTag(name)

NameH1 == <<104, 49>>
NameH2 == <<104, 50>>
NameH3 == <<104, 51>>
NameP == <<112>>
NameTh == <<116, 104>>
NameTd == <<116, 100>>
NameTr == <<116, 114>>
NameTable == <<116, 97, 98, 108, 101>>

\* process_paragraph that ignores h1_used
\* lines 184-197 without the h1_used test
RenderAlwaysH1(level, t, counter, used) ==
    IF level > 0
    THEN (IF level = 1 THEN Tagged(NameH1, t)
          ELSE IF level = 2 THEN Tagged(NameH2, t)
          ELSE Tagged(NameH3, t))
    ELSE Bind(Format02d(counter), LAMBDA nn : Tagged(NameP \o nn, t))

\* lines 184-197
Render(level, t, counter, used) ==
    IF level > 0
    THEN (IF level = 1 /\ ~used THEN Tagged(NameH1, t)
          ELSE IF level = 1 THEN Tagged(NameH2, t)
          ELSE IF level = 2 THEN Tagged(NameH2, t)
          ELSE Tagged(NameH3, t))
    ELSE Bind(Format02d(counter), LAMBDA nn : Tagged(NameP \o nn, t))

process_paragraph(p, t, base, counter, used) ==
    Bind(is_heading(p, t, base), LAMBDA level : Render(level, t, counter, used))

(***************************************************************************)
(* extract_tables_as_html: one row                                         *)
(***************************************************************************)
\* the cell branch that tags every empty cell td
CellHtmlEmptyTd(cell, r) ==
    Bind(Strip(cell), LAMBDA cell_text :
        IF cell_text # <<>>
        THEN Tagged(IF r = 0 THEN NameTh ELSE NameTd, clean_text(cell_text))
        ELSE Tagged(NameTd, <<>>))

\* lines 222-230: the element appended to cells_html for one cell of row r
CellHtml(cell, r) ==
    Bind(Strip(cell), LAMBDA cell_text :
        IF cell_text # <<>>
        THEN Tagged(IF r = 0 THEN NameTh ELSE NameTd, clean_text(cell_text))
        ELSE Tagged(IF r = 0 THEN NameTh ELSE NameTd, <<>>))

\* lines 219-230: cells_html of row r
RowCellsHtml(row, r) == [k \in 1..Len(row) |-> CellHtml(row[k], r)]

(***************************************************************************)
(* Inputs                                                                  *)
(***************************************************************************)
Run(b, s) == [bold |-> b, size |-> s]
Para(t, rs, a) == [text |-> t, runs |-> rs, alignment |-> a]

BodySize == DefaultFontSize
SubtitleSize == BodySize + H2Delta + 1
TitleSize == BodySize + H1Delta + 2

\* plain body text: three runs at the body size, so that the body size
\* stays the most frequent one next to a few title runs
PBody == Para(<<LetterA>>, <<Run(FALSE, BodySize), Run(FALSE, BodySize),
                            Run(FALSE, BodySize)>>, "LEFT")
PTitle == Para(<<84>>, <<Run(TRUE, TitleSize)>>, "CENTER")
PSubtitle == Para(<<83, SP, 38>>, <<Run(TRUE, SubtitleSize)>>, "LEFT")
PBold == Para(<<66>>, <<Run(TRUE, NoSize)>>, "LEFT")
\* title formatting, text made of a removed control character only
PControl == Para(<<DEL>>, <<Run(TRUE, TitleSize)>>, "CENTER")
\* whitespace only
PBlank == Para(<<SP, TAB>>, <<Run(FALSE, NoSize)>>, "LEFT")
\* body text that spells a tag
PMarkup == Para(<<LT, 104, 49, GT>>, <<Run(FALSE, NoSize)>>, "LEFT")

ParaPalette == {PBody, PTitle, PSubtitle, PBold, PControl, PBlank, PMarkup}
LongPalette == {PBody, PTitle}

\* "empty": no text in any cell; "mixed": text that spells a tag, or a
\* blank, by turns
CellText(pattern, r, c) ==
    IF pattern = "empty" THEN <<>>
    ELSE IF (r + c) % 2 = 0 THEN <<LT, 116, 100, GT>> ELSE <<SP>>

RectTable(nrows, ncols, pattern) ==
    [r \in 1..nrows |-> [c \in 1..ncols |-> CellText(pattern, r, c)]]

TablePalette ==
    {RectTable(nr, nc, pat) : nr \in 0..MaxRows, nc \in 0..MaxCells,
                              pat \in {"empty", "mixed"}}

Doc(ps, ts) == [paragraphs |-> ps, tables |-> ts]
EmptyDoc == Doc(<<>>, <<>>)

\* the documents get_document_structure is run on
StructureDocs ==
    {Doc(ps, <<>>) : ps \in SeqUpTo(ParaPalette, MaxParas)}
    \cup {Doc(<<PBody>>, <<t>>) : t \in TablePalette}

\* the documents the handlers are run on
Docs ==
    StructureDocs
    \cup {Doc(ps, <<>>) : ps \in SeqUpTo(LongPalette, MaxLongParas)}
    \cup {Doc(<<>>, ts) : ts \in SeqUpTo(TablePalette, MaxTables)}

Entries == {"convert_docx", "convert_docx_with_tables", "get_document_structure"}
Uploads == {"no_file", "no_filename", "not_docx", "empty_file", "malformed", "docx"}

\* the names bound in server.py's module namespace when a handler runs
ServerGlobals ==
    {"Flask", "request", "jsonify", "make_response", "BadRequest",
     "RequestEntityTooLarge", "logging", "process_docx_file", "app", "logger",
     "index", "convert_docx", "convert_docx_with_tables", "health_check",
     "too_large", "bad_request", "internal_error", "create_app", "run_server"}

\* the checks both handlers make before they read the document
Rejection(upload) ==
    IF upload = "no_file" THEN "file field missing"
    ELSE IF upload = "no_filename" THEN "no file selected"
    ELSE IF upload = "not_docx" THEN "only .docx is supported"
    ELSE IF upload = "empty_file" THEN "file is empty"
    ELSE None

(***************************************************************************)
(* The entry points                                                        *)
(***************************************************************************)
Init ==
    /\ pc = "request"
    /\ request \in [entry : Entries, upload : Uploads]
    /\ document \in Docs
    /\ request.upload # "docx" => document = EmptyDoc
    /\ request.entry = "get_document_structure"
          => request.upload \in {"malformed", "docx"} /\ document \in StructureDocs
    /\ font_sizes = None
    /\ base_font_size = None
    /\ html_elements = <<>>
    /\ paragraph_counter = 0
    /\ h1_used = FALSE
    /\ idx = 0
    /\ paragraph = None
    /\ text = None
    /\ cleaned_text = None
    /\ recleaned = None
    /\ heading_level = None
    /\ element = None
    /\ table_idx = 0
    /\ row_idx = 0
    /\ cells_html = <<>>
    /\ rows_html = <<>>
    /\ html_tables = <<>>
    /\ paragraphs_count = 0
    /\ headings_count = 0
    /\ response = None

loop_vars == <<paragraph, text, cleaned_text, heading_level, element>>
table_vars == <<table_idx, row_idx, cells_html, rows_html, html_tables>>
count_vars == <<paragraphs_count, headings_count>>
render_vars == <<html_elements, paragraph_counter, h1_used>>

\* server.py convert_docx up to the call, then process_docx_file lines 25-34
convert_docx ==
    /\ pc = "request"
    /\ request.entry = "convert_docx"
    /\ IF Rejection(request.upload) # None
       THEN /\ response' = [status |-> 400, error |-> Rejection(request.upload)]
            /\ pc' = "done"
            /\ UNCHANGED <<font_sizes, base_font_size, render_vars>>
       ELSE IF request.upload = "malformed"
       THEN /\ response' = [status |-> 500, success |-> FALSE,
                            error |-> "process_docx_file raised"]
            /\ pc' = "done"
            /\ UNCHANGED <<font_sizes, base_font_size, render_vars>>
       ELSE /\ \E stats \in {analyze_font_sizes(document)} :
                   /\ font_sizes' = stats
                   /\ base_font_size' = stats.base
            /\ html_elements' = <<>>
            /\ paragraph_counter' = 1
            /\ h1_used' = FALSE
            /\ pc' = "paragraphs"
            /\ UNCHANGED response
    /\ UNCHANGED <<request, document, idx, loop_vars, recleaned, table_vars,
                   count_vars>>

\* server.py convert_docx_with_tables: the call names a function the module
\* never binds, and the handler's except clause answers the NameError
convert_docx_with_tables ==
    /\ pc = "request"
    /\ request.entry = "convert_docx_with_tables"
    /\ IF Rejection(request.upload) # None
       THEN response' = [status |-> 400, error |-> Rejection(request.upload)]
       ELSE IF "process_docx_with_tables" \notin ServerGlobals
       THEN response' = [status |-> 500, success |-> FALSE,
                         error |-> "name 'process_docx_with_tables' is not defined"]
       ELSE response' = [status |-> 500, success |-> FALSE,
                         error |-> "process_docx_with_tables raised"]
    /\ pc' = "done"
    /\ UNCHANGED <<request, document, font_sizes, base_font_size, render_vars,
                   idx, loop_vars, recleaned, table_vars, count_vars>>

\* lines 39-41 with the test of the cleaned text left out
EmitsUncleaned(t, c) == t # <<>>

\* lines 39-41: the paragraph yields an element
Emits(t, c) == t # <<>> /\ c # <<>>

\* lines 50-51
NextH1Used(e, used) == IF StartsWith(e, OpenTag(NameH1)) THEN TRUE ELSE used

\* lines 50-54 with the counter advanced after every element
NextCounterEveryElement(e, counter) == counter + 1

\* lines 50-54
NextCounter(e, counter) ==
    IF StartsWith(e, OpenTag(NameH1)) THEN counter
    ELSE IF StartsWith(e, <<LT>> \o NameP) THEN counter + 1
    ELSE counter

\* process_docx_file lines 37-54: one iteration of the paragraph loop
paragraph_step ==
    /\ pc = "paragraphs"
    /\ idx < Len(document.paragraphs)
    /\ \E p \in {document.paragraphs[idx + 1]} :
       \E t \in {Strip(p.text)} :
       \E c \in {clean_text(t)} :
           /\ paragraph' = p
           /\ text' = t
           /\ cleaned_text' = IF t # <<>> THEN c ELSE cleaned_text
           /\ IF Emits(t, c)
              THEN \E e \in {process_paragraph(p, c, base_font_size,
                                               paragraph_counter, h1_used)} :
                   /\ heading_level' = is_heading(p, c, base_font_size)
                   /\ element' = e
                   /\ html_elements' = Append(html_elements, e)
                   /\ h1_used' = NextH1Used(e, h1_used)
                   /\ paragraph_counter' = NextCounter(e, paragraph_counter)
              ELSE UNCHANGED <<heading_level, element, render_vars>>
    /\ idx' = idx + 1
    /\ UNCHANGED <<pc, request, document, font_sizes, base_font_size, recleaned,
                   table_vars, count_vars, response>>

\* the paragraph loop is exhausted; extract_tables_as_html lines 210-213
tables_begin ==
    /\ pc = "paragraphs"
    /\ idx = Len(document.paragraphs)
    /\ pc' = IF document.tables = <<>> THEN "join" ELSE "rows"
    /\ table_idx' = 0
    /\ row_idx' = 0
    /\ cells_html' = <<>>
    /\ rows_html' = <<>>
    /\ html_tables' = <<>>
    /\ UNCHANGED <<request, document, font_sizes, base_font_size, render_vars,
                   idx, loop_vars, recleaned, count_vars, response>>

\* extract_tables_as_html lines 218-233: one row of the current table
row_step ==
    /\ pc = "rows"
    /\ row_idx < Len(document.tables[table_idx + 1])
    /\ \E cells \in {RowCellsHtml(document.tables[table_idx + 1][row_idx + 1],
                                  row_idx)} :
           /\ cells_html' = cells
           /\ rows_html' = IF cells # <<>>
                           THEN Append(rows_html, Tagged(NameTr, Join(cells)))
                           ELSE rows_html
    /\ row_idx' = row_idx + 1
    /\ UNCHANGED <<pc, request, document, font_sizes, base_font_size, render_vars,
                   idx, loop_vars, recleaned, table_idx, html_tables, count_vars,
                   response>>

\* extract_tables_as_html lines 235-237, then the next table or the return
table_end ==
    /\ pc = "rows"
    /\ row_idx = Len(document.tables[table_idx + 1])
    /\ html_tables' = IF rows_html # <<>>
                      THEN Append(html_tables, Tagged(NameTable, Join(rows_html)))
                      ELSE html_tables
    /\ IF table_idx + 1 < Len(document.tables)
       THEN /\ table_idx' = table_idx + 1
            /\ row_idx' = 0
            /\ rows_html' = <<>>
            /\ pc' = "rows"
       ELSE /\ pc' = "join"
            /\ UNCHANGED <<table_idx, row_idx, rows_html>>
    /\ UNCHANGED <<request, document, font_sizes, base_font_size, render_vars,
                   idx, loop_vars, recleaned, cells_html, count_vars, response>>

\* extract_tables_as_html line 239, process_docx_file lines 57-61 and
\* convert_docx lines 83-92
finish ==
    /\ pc = "join"
    /\ \E table_html \in {Join(html_tables)} :
       \E elements \in {IF table_html # <<>>
                        THEN Append(html_elements, table_html)
                        ELSE html_elements} :
       \E result \in {Join(elements)} :
           /\ html_elements' = elements
           /\ response' = [status |-> 200, success |-> TRUE, text |-> result,
                           text_length |-> Len(result)]
    /\ pc' = "done"
    /\ UNCHANGED <<request, document, font_sizes, base_font_size,
                   paragraph_counter, h1_used, idx, loop_vars, recleaned,
                   table_vars, count_vars>>

\* get_document_structure lines 281-289
structure_begin ==
    /\ pc = "request"
    /\ request.entry = "get_document_structure"
    /\ IF request.upload = "malformed"
       THEN /\ response' = [error |-> "Document raised"]
            /\ pc' = "done"
            /\ UNCHANGED <<font_sizes, count_vars>>
       ELSE /\ font_sizes' = analyze_font_sizes(document)
            /\ paragraphs_count' = 0
            /\ headings_count' = 0
            /\ pc' = "count"
            /\ UNCHANGED response
    /\ UNCHANGED <<request, document, base_font_size, render_vars, idx, loop_vars,
                   recleaned, table_vars>>

\* get_document_structure lines 291-297: one iteration
structure_step ==
    /\ pc = "count"
    /\ idx < Len(document.paragraphs)
    /\ \E p \in {document.paragraphs[idx + 1]} :
       \E t \in {Strip(p.text)} :
           /\ paragraph' = p
           /\ text' = t
           /\ IF t # <<>>
              THEN IF is_heading(p, t, font_sizes.base) # 0
                   THEN /\ headings_count' = headings_count + 1
                        /\ UNCHANGED paragraphs_count
                   ELSE /\ paragraphs_count' = paragraphs_count + 1
                        /\ UNCHANGED headings_count
              ELSE UNCHANGED count_vars
    /\ idx' = idx + 1
    /\ UNCHANGED <<pc, request, document, font_sizes, base_font_size, render_vars,
                   cleaned_text, recleaned, heading_level, element, table_vars,
                   response>>

\* get_document_structure lines 299-304
structure_return ==
    /\ pc = "count"
    /\ idx = Len(document.paragraphs)
    /\ response' = [paragraphs |-> paragraphs_count, headings |-> headings_count,
                    tables |-> Len(document.tables), font_sizes |-> font_sizes]
    /\ pc' = "done"
    /\ UNCHANGED <<request, document, font_sizes, base_font_size, render_vars,
                   idx, loop_vars, recleaned, table_vars, count_vars>>

Next ==
    \/ convert_docx
    \/ convert_docx_with_tables
    \/ paragraph_step
    \/ tables_begin
    \/ row_step
    \/ table_end
    \/ finish
    \/ structure_begin
    \/ structure_step
    \/ structure_return

Spec == Init /\ [][Next]_vars

(***************************************************************************)
(* clean_text on its own: every string over Alphabet up to MaxTextLen is   *)
(* cleaned, then cleaned again or placed in an element.                    *)
(***************************************************************************)
Alphabet == {DEL, VT, TAB, SP, AMP, LT, GT, QUOT, APOS, LetterA}

\* no entry point of the server is running
NoRequest == [entry |-> None, upload |-> None]

Idle ==
    /\ request = NoRequest
    /\ document = EmptyDoc
    /\ font_sizes = None
    /\ html_elements = <<>>
    /\ paragraph_counter = 0
    /\ h1_used = FALSE
    /\ idx = 0
    /\ table_idx = 0
    /\ row_idx = 0
    /\ cells_html = <<>>
    /\ rows_html = <<>>
    /\ html_tables = <<>>
    /\ paragraphs_count = 0
    /\ headings_count = 0
    /\ response = None

idle_vars == <<request, document, font_sizes, render_vars, idx, table_vars,
               count_vars, response>>

InitClean ==
    /\ Idle
    /\ pc = "clean"
    /\ text \in SeqUpTo(Alphabet, MaxTextLen)
    /\ base_font_size = BodySize
    /\ paragraph = None
    /\ cleaned_text = None
    /\ recleaned = None
    /\ heading_level = None
    /\ element = None

clean_once ==
    /\ pc = "clean"
    /\ cleaned_text' = clean_text(text)
    /\ pc' = "cleaned"
    /\ UNCHANGED <<idle_vars, base_font_size, paragraph, text, recleaned,
                   heading_level, element>>

clean_again ==
    /\ pc = "cleaned"
    /\ recleaned' = clean_text(cleaned_text)
    /\ pc' = "recleaned"
    /\ UNCHANGED <<idle_vars, base_font_size, paragraph, text, cleaned_text,
                   heading_level, element>>

\* the cleaned text goes into a heading or a numbered paragraph (line 42)
place_paragraph ==
    /\ pc = "cleaned"
    /\ cleaned_text # <<>>
    /\ \E p \in {PBody, PTitle, PSubtitle, PBold}, used \in BOOLEAN :
           /\ paragraph' = p
           /\ heading_level' = is_heading(p, cleaned_text, base_font_size)
           /\ element' = process_paragraph(p, cleaned_text, base_font_size, 1, used)
    /\ pc' = "placed"
    /\ UNCHANGED <<idle_vars, base_font_size, text, cleaned_text, recleaned>>

\* the text is a table cell's (lines 222-230)
place_cell ==
    /\ pc = "cleaned"
    /\ \E r \in {0, 1} : element' = CellHtml(text, r)
    /\ pc' = "placed"
    /\ UNCHANGED <<idle_vars, base_font_size, paragraph, text, cleaned_text,
                   recleaned, heading_level>>

NextClean ==
    \/ clean_once
    \/ clean_again
    \/ place_paragraph
    \/ place_cell

SpecClean == InitClean /\ [][NextClean]_vars

(***************************************************************************)
(* is_heading on its own                                                   *)
(***************************************************************************)
\* n one-letter words separated by single spaces
WordsText(n) == [i \in 1..(2 * n - 1) |-> IF i % 2 = 1 THEN LetterA ELSE SP]

HeadingTexts ==
    {WordsText(1), WordsText(ShortWords), WordsText(ShortWords + 1),
     WordsText(MaxHeadingWords), WordsText(MaxHeadingWords + 1),
     Chars(LetterA, MaxHeadingChars), Chars(LetterA, MaxHeadingChars + 1)}

HeadingBases == {BodySize - 1, BodySize}
HeadingSizes == {NoSize} \cup ((BodySize + LargeFontDelta)..(BodySize + H1Delta + 1))
HeadingRuns == {Run(b, sz) : b \in BOOLEAN, sz \in HeadingSizes}
HeadingParas ==
    {Para(<<>>, rs, a) : rs \in SeqUpTo(HeadingRuns, MaxRuns), a \in {"LEFT", "CENTER"}}

InitHeading ==
    /\ Idle
    /\ pc = "classify"
    /\ paragraph \in HeadingParas
    /\ text \in HeadingTexts
    /\ base_font_size \in HeadingBases
    /\ cleaned_text = None
    /\ recleaned = None
    /\ heading_level = None
    /\ element = None

classify ==
    /\ pc = "classify"
    /\ heading_level' = is_heading(paragraph, text, base_font_size)
    /\ pc' = "classified"
    /\ UNCHANGED <<idle_vars, base_font_size, paragraph, text, cleaned_text,
                   recleaned, element>>

NextHeading == classify

SpecHeading == InitHeading /\ [][NextHeading]_vars

(***************************************************************************)
(* analyze_font_sizes on its own                                           *)
(***************************************************************************)
FontRuns == {Run(FALSE, sz) : sz \in {NoSize, BodySize, BodySize + H2Delta}}
FontParas == {Para(<<LetterA>>, rs, "LEFT") : rs \in SeqUpTo(FontRuns, MaxRuns)}
FontDocs == {Doc(ps, <<>>) : ps \in SeqUpTo(FontParas, MaxFontParas)}

InitFonts ==
    /\ pc = "analyze"
    /\ request = NoRequest
    /\ document \in FontDocs
    /\ font_sizes = None
    /\ base_font_size = None
    /\ html_elements = <<>>
    /\ paragraph_counter = 0
    /\ h1_used = FALSE
    /\ idx = 0
    /\ paragraph = None
    /\ text = None
    /\ cleaned_text = None
    /\ recleaned = None
    /\ heading_level = None
    /\ element = None
    /\ table_idx = 0
    /\ row_idx = 0
    /\ cells_html = <<>>
    /\ rows_html = <<>>
    /\ html_tables = <<>>
    /\ paragraphs_count = 0
    /\ headings_count = 0
    /\ response = None

analyze ==
    /\ pc = "analyze"
    /\ font_sizes' = analyze_font_sizes(document)
    /\ pc' = "analyzed"
    /\ UNCHANGED <<request, document, base_font_size, render_vars, idx, loop_vars,
                   recleaned, table_vars, count_vars, response>>

NextFonts == analyze

SpecFonts == InitFonts /\ [][NextFonts]_vars

(***************************************************************************)
(* Properties                                                              *)
(***************************************************************************)
Rendering == request.entry = "convert_docx"
Rendered == pc = "done" /\ Rendering /\ request.upload = "docx"

\* the cleaned text of paragraph i, as process_docx_file computes it
Sanitized(i) == clean_text(Strip(document.paragraphs[i].text))

\* the paragraphs among the first n that is_heading puts at `level`, of
\* those whose cleaned text is not empty
Classified(n, base, levels) ==
    {i \in 1..n : \E c \in {Sanitized(i)} :
        c # <<>> /\ is_heading(document.paragraphs[i], c, base) \in levels}

\* C1: the HTML that process_docx_file returns holds at most one <h1>
\* element, however many paragraphs classify as heading level 1.
C1_AtMostOneH1 ==
    /\ (pc \in {"paragraphs", "rows", "join"} /\ Rendering)
          => Occurrences(Join(html_elements), OpenTag(NameH1)) <= 1
    /\ Rendered => Occurrences(response.text, OpenTag(NameH1)) <= 1

\* two paragraphs classified level 1, rendered: one <h1>, the other an <h2>
C1_Witness ==
    /\ Rendered
    /\ Cardinality(Classified(Len(document.paragraphs), base_font_size, {1})) >= 2
    /\ Occurrences(response.text, OpenTag(NameH1)) = 1
    /\ Occurrences(response.text, OpenTag(NameH2)) >= 1

\* the body paragraph elements of the list, in order
BodyElements(elements) ==
    SelectSeq(elements, LAMBDA e : StartsWith(e, <<LT>> \o NameP))

\* k in decimal, at least two digits wide (k < 100)
TwoDigits(k) == <<48 + (k \div 10), 48 + (k % 10)>>

Numbered(bodies) ==
    \A k \in 1..Len(bodies) :
        /\ StartsWith(bodies[k], <<LT, 112>> \o TwoDigits(k) \o <<GT>>)
        /\ EndsWith(bodies[k], <<LT, SLASH, 112>> \o TwoDigits(k) \o <<GT>>)

\* C2: the k-th emitted body paragraph (classification NONE, non-empty
\* sanitized text) carries the number k, zero-padded to two digits and
\* starting at 01, whatever headings are emitted in between.
C2_BodyNumbering ==
    (pc \in {"paragraphs", "rows", "join", "done"} /\ Rendering
        /\ request.upload = "docx")
    => \E bodies \in {BodyElements(html_elements)} :
          /\ Numbered(bodies)
          /\ Len(bodies) = Cardinality(Classified(idx, base_font_size, {0}))
          /\ paragraph_counter = Len(bodies) + 1

\* ten body paragraphs or more, a heading between two of them
C2_Witness ==
    /\ Rendered
    /\ Len(BodyElements(html_elements)) >= 10
    /\ \E j \in 2..(Len(html_elements) - 1) :
          /\ StartsWith(html_elements[j], <<LT, 104>>)
          /\ StartsWith(html_elements[j - 1], <<LT, 112>>)
          /\ StartsWith(html_elements[j + 1], <<LT, 112>>)

Entities == {EntAmp, EntLt, EntGt, EntQuot, EntApos}

\* s holds no < > " ' and each & of s opens one of the five entities
Escaped(s) ==
    \A i \in 1..Len(s) :
        /\ s[i] \notin {LT, GT, QUOT, APOS}
        /\ s[i] = AMP => \E ent \in Entities :
                            /\ i + Len(ent) - 1 <= Len(s)
                            /\ SubSeq(s, i, i + Len(ent) - 1) = ent

TagNames == {NameH1, NameH2, NameH3, NameTh, NameTd, NameP \o <<48, 49>>}

\* e is a fixed tag skeleton around escaped text
EscapedElement(e) ==
    \E name \in TagNames :
        /\ StartsWith(e, OpenTag(name))
        /\ EndsWith(e, CloseTag(name))
        /\ Len(e) >= Len(OpenTag(name)) + Len(CloseTag(name))
        /\ Escaped(SubSeq(e, Len(OpenTag(name)) + 1, Len(e) - Len(CloseTag(name))))

\* C3 (amended): the text clean_text produces holds no literal < > " ' and
\* every & in it opens one of the entities &amp; &lt; &gt; &quot; &#39;, so
\* inside a heading, paragraph or cell element the only < and > are those
\* of the tag skeleton.
C3_NoTagInjection ==
    /\ pc \in {"cleaned", "recleaned", "placed"} => Escaped(cleaned_text)
    /\ pc = "placed" => /\ EscapedElement(element)
                        /\ Occurrences(element, <<LT>>) = 2
                        /\ Occurrences(element, <<GT>>) = 2

\* a text with & and < placed in an <h1>
C3_Witness ==
    /\ pc = "placed"
    /\ AMP \in SeqRange(text)
    /\ LT \in SeqRange(text)
    /\ StartsWith(element, OpenTag(NameH1))

\* C3 as stated: none of < > & " ' occurs in the cleaned text at all.
C3_Original ==
    pc \in {"cleaned", "recleaned", "placed"}
        => SeqRange(cleaned_text) \cap HtmlSpecials = {}

\* C4 (amended): clean_text(clean_text(x)) = clean_text(x) exactly for the
\* x that hold none of & < > " '; for the others the second pass escapes
\* the & of the entities again.
C4_IdempotentWithoutSpecials ==
    pc = "recleaned"
        => ((recleaned = cleaned_text) <=> (SeqRange(text) \cap HtmlSpecials = {}))

\* a text without specials that cleaning changes and does not empty
C4_Witness ==
    /\ pc = "recleaned"
    /\ SeqRange(text) \cap HtmlSpecials = {}
    /\ cleaned_text # text
    /\ cleaned_text # <<>>
    /\ recleaned = cleaned_text

\* C4 as stated: cleaning twice equals cleaning once, for every input.
C4_Original == pc = "recleaned" => recleaned = cleaned_text

\* the word count of s: the positions where a word starts
WordStarts(s) ==
    Cardinality({i \in 1..Len(s) : ~IsSpace(s[i]) /\ (i = 1 \/ IsSpace(s[i - 1]))})

\* the ladder of C5 for paragraph p, text t, baseline b
LadderOf(p, t, b) ==
    LET wordCount == WordStarts(t)
        sized == {k \in 1..Len(p.runs) : p.runs[k].size # NoSize}
        isBold == \E k \in 1..Len(p.runs) : p.runs[k].bold
        isLargeFont == \E k \in sized : p.runs[k].size > b + 1
        isCentered == p.alignment = "CENTER"
        maxFontSize == SetMax({b} \cup {p.runs[k].size : k \in sized})
        score == (IF isBold THEN 3 ELSE 0) + (IF isLargeFont THEN 2 ELSE 0)
                 + (IF isCentered THEN 5 ELSE 0) + (IF wordCount <= 10 THEN 1 ELSE 0)
    IN  IF Len(t) > 200 \/ wordCount > 25 THEN 0
        ELSE IF maxFontSize > b + 4 THEN (IF score >= 2 THEN 1 ELSE 0)
        ELSE IF maxFontSize > b + 2 THEN (IF score >= 2 THEN 2 ELSE 0)
        ELSE IF score >= 3 THEN 3
        ELSE 0

\* C5: is_heading is one ordered ladder: NONE for more than 200 characters
\* or more than 25 words; else, with score = 3*isBold + 2*isLargeFont +
\* 5*isCentered + (wordCount <= 10), H1 or NONE (score >= 2) above
\* baseline+4, H2 or NONE (score >= 2) above baseline+2, else H3 or NONE
\* (score >= 3).
C5_Ladder ==
    pc = "classified"
        => \E expected \in {LadderOf(paragraph, text, base_font_size)} :
              heading_level = expected

\* a two-run paragraph, the second run the larger, that lands on H2
C5_Witness ==
    /\ pc = "classified"
    /\ heading_level = 2
    /\ Len(paragraph.runs) = 2
    /\ paragraph.runs[1].size # NoSize
    /\ paragraph.runs[2].size > paragraph.runs[1].size

\* the largest of the baseline and the sizes of the sized runs of p
MaxFontSizeOf(p, b) ==
    SetMax({b} \cup {p.runs[k].size : k \in {j \in 1..Len(p.runs) : p.runs[j].size # NoSize}})

\* the paragraph passes the length and word-count disqualifiers
Qualifies == Len(text) <= MaxHeadingChars /\ WordStarts(text) <= MaxHeadingWords

\* C11: for every paragraph that passes the length and word-count
\* disqualifiers, maxFontSize > baseline+2 implies that the run loop sets
\* is_large_font and the score is at least 2, so is_heading returns H1
\* whenever maxFontSize > baseline+4 and H2 whenever baseline+2 <
\* maxFontSize <= baseline+4: the NONE outcome of the first two rungs is
\* never reached.
C11_SizeRungsNeverNone ==
    (pc = "classified" /\ Qualifies)
        => \E maxFontSize \in {MaxFontSizeOf(paragraph, base_font_size)} :
           \E acc \in {ScanRuns(paragraph.runs, base_font_size)} :
           \E score \in {Score(acc, paragraph.alignment = "CENTER", WordStarts(text))} :
              /\ maxFontSize > base_font_size + 2
                    => acc.is_large_font /\ score >= 2 /\ heading_level # 0
              /\ maxFontSize > base_font_size + 4 => heading_level = 1
              /\ (maxFontSize > base_font_size + 2 /\ maxFontSize <= base_font_size + 4)
                    => heading_level = 2

\* a long, left-aligned paragraph without bold: only the font size speaks,
\* the score is exactly 2 and the second rung still gives H2
C11_Witness ==
    /\ pc = "classified"
    /\ Qualifies
    /\ WordStarts(text) > ShortWords
    /\ paragraph.alignment = "LEFT"
    /\ \A k \in 1..Len(paragraph.runs) : ~paragraph.runs[k].bold
    /\ MaxFontSizeOf(paragraph, base_font_size) = base_font_size + H2Delta + 1
    /\ heading_level = 2

\* the <<paragraph, run>> positions of the sized runs
SizedRuns ==
    {pr \in UNION {{<<i, j>> : j \in 1..Len(document.paragraphs[i].runs)} :
                      i \in 1..Len(document.paragraphs)} :
        document.paragraphs[pr[1]].runs[pr[2]].size # NoSize}

SizeAt(pr) == document.paragraphs[pr[1]].runs[pr[2]].size

\* pr comes before qr in a scan of paragraphs, then runs
Before(pr, qr) == pr[1] < qr[1] \/ (pr[1] = qr[1] /\ pr[2] < qr[2])

CountOf(S, v) == Cardinality({pr \in S : SizeAt(pr) = v})

\* some run of size v comes before every run of size w
FirstSeenBefore(S, v, w) ==
    \E pr \in S : SizeAt(pr) = v /\ \A qr \in S : SizeAt(qr) = w => Before(pr, qr)

\* C6: the baseline is the size with the highest occurrence count over the
\* sized runs, on a tie the one met first in paragraph-then-run order; with
\* no sized run the result is base 12, min 12, max 12 and an empty list.
C6_Baseline ==
    pc = "analyzed"
        => \E S \in {SizedRuns} :
              IF S = {}
              THEN font_sizes = [base |-> 12, min |-> 12, max |-> 12, all |-> <<>>]
              ELSE /\ \E pr \in S : SizeAt(pr) = font_sizes.base
                   /\ \A pr \in S :
                         \E v \in {SizeAt(pr)} :
                            /\ CountOf(S, v) <= CountOf(S, font_sizes.base)
                            /\ (v # font_sizes.base
                                /\ CountOf(S, v) = CountOf(S, font_sizes.base))
                                  => FirstSeenBefore(S, font_sizes.base, v)
                   /\ Len(font_sizes.all) = Cardinality(S)

\* a tie between two sizes, won by the one seen first, which is neither
\* the smaller one nor the one seen last
C6_Witness ==
    /\ pc = "analyzed"
    /\ \E S \in {SizedRuns} :
          /\ Cardinality(S) = 4
          /\ \E pr \in S :
                /\ SizeAt(pr) < font_sizes.base
                /\ CountOf(S, SizeAt(pr)) = CountOf(S, font_sizes.base)
          /\ font_sizes.all[1] = font_sizes.base
          /\ font_sizes.all[4] # font_sizes.base

\* the <<table, row, cell>> positions of the document's table cells
CellPositions ==
    UNION {UNION {{<<t, r, c>> : c \in 1..Len(document.tables[t][r])} :
                     r \in 1..Len(document.tables[t])} :
              t \in 1..Len(document.tables)}

\* C7: every cell of row 0 of every table is rendered with <th>, every
\* cell of a later row with <td>, an empty cell as the empty element of
\* its row's tag.
C7_HeaderRowTags ==
    /\ (Rendering /\ pc \in {"rows", "join", "done"} /\ row_idx > 0)
          => \E row \in {document.tables[table_idx + 1][row_idx]},
                tag \in {IF row_idx - 1 = 0 THEN NameTh ELSE NameTd} :
                /\ Len(cells_html) = Len(row)
                /\ \A k \in 1..Len(row) :
                      /\ StartsWith(cells_html[k], OpenTag(tag))
                      /\ EndsWith(cells_html[k], CloseTag(tag))
                      /\ Strip(row[k]) = <<>>
                            => cells_html[k] = OpenTag(tag) \o CloseTag(tag)
    /\ Rendered
          => /\ Occurrences(response.text, OpenTag(NameTh))
                  = Cardinality({x \in CellPositions : x[2] = 1})
             /\ Occurrences(response.text, OpenTag(NameTd))
                  = Cardinality({x \in CellPositions : x[2] > 1})

\* the second row of the second table is done; it has an empty <td> cell
\* and a cell with text
C7_Witness ==
    /\ Rendering
    /\ pc = "rows"
    /\ table_idx = 1
    /\ row_idx = 2
    /\ Len(cells_html) = 2
    /\ \E k \in 1..2 : cells_html[k] = OpenTag(NameTd) \o CloseTag(NameTd)
    /\ \E k \in 1..2 : Len(cells_html[k]) > Len(OpenTag(NameTd) \o CloseTag(NameTd))
    /\ \E r \in 1..Len(rows_html) : Occurrences(rows_html[r], OpenTag(NameTh)) > 0

\* C8: for an empty document every conversion entry point returns an empty
\* string and never an error, the /convert-with-tables path included.
C8_EmptyDocumentEmptyString ==
    (pc = "done" /\ document = EmptyDoc /\ request.upload = "docx"
        /\ request.entry \in {"convert_docx", "convert_docx_with_tables"})
    => /\ response.status = 200
       /\ response.text = <<>>

\* C9: get_document_structure returns headings = the number of paragraphs
\* classified non-NONE and paragraphs = the number of the others, a
\* paragraph that is empty after sanitizing being counted in neither.
C9_StructureCounts ==
    (pc = "done" /\ request.entry = "get_document_structure"
        /\ request.upload = "docx")
    => \E n \in {Len(document.paragraphs)} :
          /\ response.headings
                = Cardinality(Classified(n, font_sizes.base, {1, 2, 3}))
          /\ response.paragraphs = Cardinality(Classified(n, font_sizes.base, {0}))

\* the paragraphs of ps whose sanitized text is not empty, in order
NonEmpty(ps) == SelectSeq(ps, LAMBDA p : clean_text(Strip(p.text)) # <<>>)

RECURSIVE RenderUpTo(_, _, _)
\* html_elements, paragraph_counter and h1_used after the first n of ps,
\* none of which is empty after sanitizing
RenderUpTo(ps, n, base) ==
    IF n = 0 THEN [elements |-> <<>>, counter |-> 1, used |-> FALSE]
    ELSE Bind(RenderUpTo(ps, n - 1, base), LAMBDA st :
         Bind(process_paragraph(ps[n], clean_text(Strip(ps[n].text)), base,
                                st.counter, st.used), LAMBDA e :
              [elements |-> Append(st.elements, e),
               counter |-> NextCounter(e, st.counter),
               used |-> NextH1Used(e, st.used)]))

\* C10: a paragraph whose sanitized text is empty adds no element and
\* leaves h1_used and paragraph_counter as they are, so the paragraph loop
\* ends with the elements of the document without such paragraphs (under
\* the same baseline).
C10_EmptySkipped ==
    [][/\ (pc = "paragraphs" /\ idx' = idx + 1
              /\ clean_text(Strip(document.paragraphs[idx + 1].text)) = <<>>)
           => /\ html_elements' = html_elements
              /\ h1_used' = h1_used
              /\ paragraph_counter' = paragraph_counter
       /\ (pc = "paragraphs" /\ pc' # "paragraphs")
           => \E kept \in {NonEmpty(document.paragraphs)} :
              \E st \in {RenderUpTo(kept, Len(kept), base_font_size)} :
                 /\ html_elements = st.elements
                 /\ paragraph_counter = st.counter
                 /\ h1_used = st.used]_vars

\* a paragraph of title formatting and control-character text was passed
\* over; a later title took the <h1> and a body paragraph the number 01
C10_Witness ==
    /\ Rendering
    /\ pc = "join"
    /\ Len(document.paragraphs) = 3
    /\ document.paragraphs[1] = PControl
    /\ Len(html_elements) = 2
    /\ \E k \in 1..2 : StartsWith(html_elements[k], OpenTag(NameH1))
    /\ \E k \in 1..2 : StartsWith(html_elements[k], <<LT, 112, 48, 49, GT>>)

=============================================================================
